---- MODULE Spec2Model ----
(***************************************************************************)
(* LiteDB-Go (src/main.go): a file-backed document store.  One Driver      *)
(* owns a root directory, a registry of per-collection mutexes guarded by  *)
(* a global mutex, and the operations Write, Read, ReadAll and Delete.     *)
(* Every operation is modelled as the sequence of its system calls and     *)
(* lock operations, so that concurrent callers interleave between them.    *)
(*                                                                         *)
(* Paths are sequences of path segments below the driver's root; a file's  *)
(* content is a sequence of one-character strings.  Values are JSON        *)
(* numbers: json.MarshalIndent of a number is its decimal digits.          *)
(***************************************************************************)
EXTENDS Integers, Sequences, FiniteSets, TLC

\* Number of concurrent callers (goroutines).
NumProcs == 2
\* Total number of operations invoked in one behaviour.
MaxCalls == 4

Procs == 1..NumProcs

\* Collection names as the callers pass them, split at the path separator:
\* <<>> is the empty string, <<"a">> is "a".
Collections == {<<>>, <<"a">>}
\* Resource names; "" is the empty string.
Resources == {"", "x", "y"}
\* Values handed to Write.  "1" is a proper prefix of "12", so a truncated
\* document can still parse.
Values == {1, 12}
Ops == {"Write", "Read", "ReadAll", "Delete"}

(***************************************************************************)
(* Paths: filepath.Join, filepath.Clean and string concatenation.          *)
(***************************************************************************)
\* d.dir, cleaned by New (line 39); every path of the store is below it.
RootDir == <<>>

\* filepath.Clean on a segment sequence: drops empty and "." segments.
Clean(path) == SelectSeq(path, LAMBDA s : s # "" /\ s # ".")

\* filepath.Join(a, b): joins, ignoring empty elements, and cleans.
Join(a, b) == Clean(a \o b)

\* path + ext: Go string concatenation, which extends the last segment.
Suffix(path, ext) ==
    IF path = <<>> THEN <<ext>>
    ELSE [path EXCEPT ![Len(path)] = @ \o ext]

\* dir := filepath.Join(d.dir, collection)                     (line 80, 129)
CollDir(c) == Join(RootDir, c)
\* fnlPath := filepath.Join(dir, resource+".json")                 (line 81)
FnlPath(c, r) == Join(CollDir(c), <<r \o ".json">>)
\* tempPath := fnlPath + ".tmp"                                    (line 82)
TempPathInPlace(fnl) == fnl
TempPath(fnl) == Suffix(fnl, ".tmp")
\* record := filepath.Join(d.dir, collection, resource)           (line 110)
RecordPath(c, r) == Join(RootDir, c \o <<r>>)
\* filepath.Join(dir, file.Name())                                (line 139)
EntryPath(dir, name) == Join(dir, <<name>>)
\* path := filepath.Join(collection, resource); dir := filepath.Join(d.dir, path)
\*                                                           (lines 156, 161)
DeletePath(c, r) == Join(RootDir, Join(c, <<r>>))

(***************************************************************************)
(* JSON: json.MarshalIndent / json.Unmarshal on numbers.                   *)
(***************************************************************************)
DigitChar == <<"0", "1", "2", "3", "4", "5", "6", "7", "8", "9">>

RECURSIVE Digits(_)
Digits(n) ==
    IF n < 10 THEN <<DigitChar[n + 1]>>
    ELSE Digits(n \div 10) \o <<DigitChar[(n % 10) + 1]>>

\* b, err := json.MarshalIndent(v, "", "\t"); b = append(b, '\n') (lines 88-93)
Marshal(v) == Digits(v) \o <<"\n">>

IsDigit(ch) == \E i \in 1..10 : DigitChar[i] = ch
DigitVal(ch) == (CHOOSE i \in 1..10 : DigitChar[i] = ch) - 1

RECURSIVE TrimLeft(_)
TrimLeft(b) == IF b # <<>> /\ Head(b) = "\n" THEN TrimLeft(Tail(b)) ELSE b
RECURSIVE TrimRight(_)
TrimRight(b) ==
    IF b # <<>> /\ b[Len(b)] = "\n" THEN TrimRight(SubSeq(b, 1, Len(b) - 1)) ELSE b

RECURSIVE Number(_)
Number(ds) ==
    IF ds = <<>> THEN 0 ELSE 10 * Number(SubSeq(ds, 1, Len(ds) - 1)) + DigitVal(ds[Len(ds)])

\* json.Unmarshal(b, &v): <<v>> on success, <<>> on a syntax error.  Leading
\* and trailing whitespace is skipped; a number has no leading zero.
Unmarshal(b) ==
    LET t == TrimRight(TrimLeft(b)) IN
    IF /\ t # <<>>
       /\ \A i \in 1..Len(t) : IsDigit(t[i])
       /\ (Len(t) > 1 => t[1] # "0")
    THEN <<Number(t)>>
    ELSE <<>>

(***************************************************************************)
(* The filesystem: a map from the paths that exist to their nodes.  w is   *)
(* the set of callers holding the file open, for writing or for reading.   *)
(* A file that is unlinked while callers hold it open lives on, without a  *)
(* name, until the last of them closes it: it is kept under a path whose   *)
(* first segment is "", which no path of the store has.                    *)
(***************************************************************************)
DirNode == [dir |-> TRUE, data |-> <<>>, w |-> {}]
FileNode(data, w) == [dir |-> FALSE, data |-> data, w |-> w]

\* The place of an unlinked file held open by the callers in w.
ProcName == <<"1", "2", "3", "4", "5", "6", "7", "8">>
OrphanKey(w) == <<"", ProcName[CHOOSE p \in w : \A o \in w : p <= o]>>
IsOrphan(path) == path # <<>> /\ path[1] = ""
\* What the paths of the store show: the files that have a name, whoever
\* holds them open.
Visible(f) ==
    [q \in {o \in DOMAIN f : ~IsOrphan(o)} |-> [f[q] EXCEPT !.w = {}]]

Exists(f, path) == path \in DOMAIN f
IsDir(f, path) == Exists(f, path) /\ f[path].dir
IsRegular(f, path) == Exists(f, path) /\ ~f[path].dir

Parent(path) == SubSeq(path, 1, Len(path) - 1)
Prefixes(path) == {SubSeq(path, 1, n) : n \in 0..Len(path)}
IsUnder(path, dir) ==
    Len(path) > Len(dir) /\ SubSeq(path, 1, Len(dir)) = dir
Children(f, dir) == {q \in DOMAIN f : Len(q) = Len(dir) + 1 /\ Parent(q) = dir}

\* Removes the paths in gone from the map.
Without(f, gone) == [q \in DOMAIN f \ gone |-> f[q]]

\* unlink(path) of a regular file: the name goes; the file stays, nameless,
\* while somebody holds it open.
Unlink(f, path) ==
    IF f[path].w = {} THEN Without(f, {path})
    ELSE [q \in (DOMAIN f \ {path}) \cup {OrphanKey(f[path].w)} |->
             IF q = OrphanKey(f[path].w) THEN f[path] ELSE f[q]]

\* os.Stat(path): <<node>> when the path exists, <<>> for IsNotExist.
OsStat(f, path) == IF Exists(f, path) THEN <<f[path]>> ELSE <<>>

\* stat (lines 190-195): the bare path, then the path with ".json".
Stat(f, path) ==
    IF OsStat(f, path) # <<>> THEN OsStat(f, path)
    ELSE OsStat(f, Suffix(path, ".json"))

\* os.MkdirAll(dir): fails when a component exists and is no directory.
MkdirAllOk(f, dir) == \A q \in Prefixes(dir) : Exists(f, q) => f[q].dir
MkdirAll(f, dir) ==
    [q \in DOMAIN f \cup Prefixes(dir) |-> IF q \in DOMAIN f THEN f[q] ELSE DirNode]

\* open(path, O_WRONLY|O_CREATE|O_TRUNC) as ioutil.WriteFile does it.
OpenOk(f, path) == IsDir(f, Parent(path)) /\ ~IsDir(f, path)
OpenTrunc(f, path, p) ==
    [q \in DOMAIN f \cup {path} |->
        IF q = path
        THEN FileNode(<<>>, (IF Exists(f, path) THEN f[path].w ELSE {}) \cup {p})
        ELSE f[q]]

\* write(fd, chunk) at offset off: the file p holds open, wherever it is now
\* linked; a file that was unlinked meanwhile is written invisibly.
\* A write beyond the end of the file leaves a hole of NUL bytes.
Overwrite(data, off, chunk) ==
    LET before == IF off <= Len(data) THEN SubSeq(data, 1, off)
                  ELSE data \o [i \in 1..(off - Len(data)) |-> "NUL"]
    IN  before \o chunk \o SubSeq(data, off + Len(chunk) + 1, Len(data))
WriteAt(f, p, off, chunk) ==
    [q \in DOMAIN f |->
        IF ~f[q].dir /\ p \in f[q].w
        THEN [f[q] EXCEPT !.data = Overwrite(@, off, chunk)]
        ELSE f[q]]
\* close(fd): a nameless file that nobody holds any more is gone.
Close(f, p) ==
    LET g == [q \in DOMAIN f |->
                 IF ~f[q].dir THEN [f[q] EXCEPT !.w = @ \ {p}] ELSE f[q]]
        named == {q \in DOMAIN g : ~IsOrphan(q)}
        held == {q \in DOMAIN g : IsOrphan(q) /\ g[q].w # {}}
    IN  [k \in named \cup {OrphanKey(g[q].w) : q \in held} |->
            IF k \in named THEN g[k]
            ELSE g[CHOOSE q \in held : OrphanKey(g[q].w) = k]]

\* open(path, O_RDONLY) as ioutil.ReadFile does it: "ok", or the error class.
\* A directory can be opened; the read that follows fails with EISDIR.
OpenStatus(f, path) ==
    IF ~Exists(f, path) THEN "notfound"
    ELSE IF f[path].dir THEN "io"
    ELSE "ok"
OpenRead(f, path, p) == [f EXCEPT ![path].w = @ \cup {p}]
\* read(fd) at offset off of the file p holds open, whatever its name is by
\* now: the bytes from there to the end of the file; none at the end.
HeldBy(f, p) == CHOOSE q \in DOMAIN f : ~f[q].dir /\ p \in f[q].w
ReadAt(f, p, off) ==
    LET data == f[HeldBy(f, p)].data IN
    IF off >= Len(data) THEN <<>> ELSE SubSeq(data, off + 1, Len(data))

\* os.Rename(from, to) for a regular file: replaces to in one step.
RenameOk(f, from, to) ==
    IsRegular(f, from) /\ IsDir(f, Parent(to)) /\ ~IsDir(f, to)
RenameCopy(f, from, to) ==
    LET g == IF Exists(f, to) /\ from # to THEN Unlink(f, to) ELSE f IN
    [q \in DOMAIN g \cup {to} |-> IF q = to THEN f[from] ELSE g[q]]
Rename(f, from, to) ==
    IF from = to THEN f
    ELSE LET g == IF Exists(f, to) THEN Unlink(f, to) ELSE f IN
         [q \in (DOMAIN g \ {from}) \cup {to} |-> IF q = to THEN f[from] ELSE g[q]]

\* ioutil.ReadDir(dir): the entries sorted by file name.  NameOrder lists the
\* file names of the model in byte order.
NameOrder == <<"..json", "..json.tmp", "x.json", "x.json.tmp", "y.json", "y.json.tmp">>
NameRank(n) ==
    IF \E i \in 1..Len(NameOrder) : NameOrder[i] = n
    THEN CHOOSE i \in 1..Len(NameOrder) : NameOrder[i] = n
    ELSE 0
RECURSIVE SortByName(_)
SortByName(S) ==
    IF S = {} THEN <<>>
    ELSE LET first == CHOOSE n \in S : \A o \in S : NameRank(n) <= NameRank(o)
         IN  <<first>> \o SortByName(S \ {first})
\* The names getdents returns for dir, in the order in which ioutil.ReadDir
\* sorts its result; <<>> when dir is no directory (the error is dropped at
\* line 135).  ioutil.ReadDir then calls lstat on every name and leaves out
\* the names that are gone by then.
ReadDir(f, dir) ==
    IF IsDir(f, dir) THEN SortByName({q[Len(q)] : q \in Children(f, dir)}) ELSE <<>>

\* rmdir(dir), the last step of os.RemoveAll.
Rmdir(f, dir) == Without(f, {dir})

(***************************************************************************)
(* State.                                                                  *)
(***************************************************************************)
VARIABLES
    fs,         \* the filesystem below d.dir
    gmutex,     \* d.mutex: the caller holding it, 0 when unlocked
    mutexes,    \* d.mutexes: collection name -> mutex
    allocated,  \* the mutexes created so far: allocated[m] is the name m was made for
    locked,     \* the per-collection mutexes that are locked
    pc,         \* each caller's position
    arg,        \* each caller's current call: op, collection, resource, v
    loc,        \* each caller's locals
    res,        \* what each caller's call returned
    calls,      \* number of calls made so far
    crashed,    \* the process has crashed: nothing runs any more
    gh,         \* history, per caller: what happened before and during its call
    latest,     \* history: per directory, resource -> value last written
    lastOp,     \* history: per directory, the Write that returned last with nothing after it
    wiped,      \* history: directories removed by Delete(c, "") and not written since
    serial      \* history: the filesystem after the successful Writes and Deletes so
                \* far, run one at a time in the order in which they held their mutex

vars == <<fs, gmutex, mutexes, allocated, locked, pc, arg, loc, res, calls,
          crashed, gh, latest, lastOp, wiped, serial>>

\* Every collection name a specification of this module draws from.
AllCollections == Collections \cup {<<"a.json">>, <<".", "a">>, <<".">>}
AllDirs == {CollDir(c) : c \in AllCollections \ {<<>>}}

EmptyMap == <<>>
NoArg == [op |-> "none", c |-> <<>>, r |-> "", v |-> <<>>]
NoLoc == [m |-> 0, off |-> 0, st |-> "none", todo |-> <<>>, files |-> {},
          buf |-> <<>>, recs |-> <<>>]
\* Sequence s without its i-th element.
Drop(s, i) == SubSeq(s, 1, i - 1) \o SubSeq(s, i + 1, Len(s))
NoRes == [st |-> "none", val |-> <<>>, raw |-> <<>>, recs |-> <<>>]
NoGh == [und |-> FALSE, since |-> FALSE, seen |-> {}, conc |-> FALSE,
         had |-> FALSE, prev |-> <<>>]

\* driver := Driver{...}; os.Mkdir(dir) when it does not exist   (lines 38-66)
Init ==
    /\ fs = (RootDir :> DirNode)
    /\ gmutex = 0
    /\ mutexes = EmptyMap
    /\ allocated = <<>>
    /\ locked = {}
    /\ pc = [p \in Procs |-> "idle"]
    /\ arg = [p \in Procs |-> NoArg]
    /\ loc = [p \in Procs |-> NoLoc]
    /\ res = [p \in Procs |-> NoRes]
    /\ calls = 0
    /\ crashed = FALSE
    /\ gh = [p \in Procs |-> NoGh]
    /\ latest = [d \in AllDirs |-> EmptyMap]
    /\ lastOp = [d \in AllDirs |-> <<>>]
    /\ wiped = {}
    /\ serial = (RootDir :> DirNode)

(***************************************************************************)
(* Callers.                                                                *)
(***************************************************************************)
CSPcs == {"w_mkdir", "w_mkdir2", "w_mkdir3", "w_open", "w_write", "w_rename",
          "d_stat", "d_removeall", "d_ra_list", "d_ra_unlink", "d_ra_rmdir",
          "d_remove", "unlock"}
\* Caller q is between mutex.Lock() and mutex.Unlock() of a Write or Delete.
InCS(q) == pc[q] \in CSPcs
InFlight(q) == pc[q] \notin {"idle", "done"}
\* Caller q is in a Read or ReadAll, or holds its result.
IsReader(q) == arg[q].op \in {"Read", "ReadAll"}
Dir(q) == CollDir(arg[q].c)
\* The content of a path, as a sequence of at most one element.
FileState(f, path) == IF IsRegular(f, path) THEN <<f[path].data>> ELSE <<>>

\* The history a call starts with: for a Read or ReadAll, whether no Write or
\* Delete is inside its locked section on the same directory, whether the
\* directory was wiped, and which complete version the resource file holds.
StartGh(op, c, r) ==
    LET d == CollDir(c)
        reads == op \in {"Read", "ReadAll"}
    IN  [NoGh EXCEPT
           !.und = reads /\ ~\E q \in Procs : InCS(q) /\ Dir(q) = d,
           !.since = /\ reads
                     /\ d \in wiped
                     /\ ~\E q \in Procs : InCS(q) /\ Dir(q) = d /\ arg[q].op = "Write",
           !.seen = IF op = "Read" /\ IsRegular(fs, FnlPath(c, r))
                    THEN {fs[FnlPath(c, r)].data}
                    ELSE {}]

\* collection == "" / resource == ""             (lines 69-74, 103-108)
ValidCollectionOnly(c, r) == c # <<>>
Valid(c, r) == c # <<>> /\ r # ""

\* The arguments the callers pass: every valid triple, and each kind of
\* invalid name once.
WriteInputs ==
    {in \in Collections \X Resources \X Values :
        Valid(in[1], in[2]) \/ (in[3] = 1 /\ in[2] # "y")}
ReadInputs ==
    {in \in Collections \X Resources : Valid(in[1], in[2]) \/ in[2] # "y"}
ReadAllInputs == Collections
DeleteInputs ==
    {in \in Collections \X Resources : in[1] # <<>> \/ in[2] # "y"}

\* A caller invokes an operation: the call is counted and its arguments are
\* bound.
Invoke(p, op, c, r, v) ==
    /\ ~crashed
    /\ pc[p] = "idle"
    /\ calls < MaxCalls
    /\ calls' = calls + 1
    /\ arg' = [arg EXCEPT ![p] = [op |-> op, c |-> c, r |-> r, v |-> v]]

\* The call returns to its caller with result st.
Finish(p, st, val, raw, recs) ==
    /\ res' = [res EXCEPT ![p] = [st |-> st, val |-> val, raw |-> raw, recs |-> recs]]
    /\ loc' = [loc EXCEPT ![p] = NoLoc]
    /\ pc' = [pc EXCEPT ![p] = "done"]

\* The caller has taken the result and is ready for its next call.
Return(p) ==
    /\ ~crashed
    /\ pc[p] = "done"
    /\ pc' = [pc EXCEPT ![p] = "idle"]
    /\ arg' = [arg EXCEPT ![p] = NoArg]
    /\ res' = [res EXCEPT ![p] = NoRes]
    /\ gh' = [gh EXCEPT ![p] = NoGh]
    /\ UNCHANGED <<fs, gmutex, mutexes, allocated, locked, loc, calls, crashed,
                   latest, lastOp, wiped, serial>>

(***************************************************************************)
(* Write and Delete run alone, from call to return, on filesystem f.       *)
(***************************************************************************)
\* Write(c, r, v) (lines 80-98): the directory is made and the document is
\* stored under its final name; a step that fails ends the call.
SeqWrite(f, c, r, v) ==
    LET dir == CollDir(c)
        fnl == FnlPath(c, r)
        g == MkdirAll(f, dir)
    IN  IF ~MkdirAllOk(f, dir) THEN f
        ELSE IF ~OpenOk(g, TempPath(fnl)) \/ IsDir(g, fnl) THEN g
        ELSE [q \in DOMAIN g \cup {fnl} |->
                 IF q = fnl THEN FileNode(Marshal(v), {}) ELSE g[q]]

\* Delete(c, r) (lines 156-170): a directory goes with everything below it, a
\* regular file loses its ".json" file, a missing target changes nothing.
SeqDelete(f, c, r) ==
    LET dir == DeletePath(c, r)
        fi == Stat(f, dir)
        target == Suffix(dir, ".json")
    IN  IF fi = <<>> THEN f
        ELSE IF fi[1].dir
        THEN Without(f, {q \in DOMAIN f : q = dir \/ IsUnder(q, dir)})
        ELSE IF Exists(f, target) /\ Children(f, target) = {}
        THEN Without(f, {target})
        ELSE f

(***************************************************************************)
(* getOrCreateMutex and the per-collection mutex.                          *)
(***************************************************************************)
\* m, ok := d.mutexes[collection]                                 (line 180)
LookupMiss(ms, c) == FALSE
Lookup(ms, c) == c \in DOMAIN ms

\* mutex.Lock() blocks while the mutex is locked.
CanLockAlways(m) == TRUE
CanLockNoneHeld(m) == locked = {}
CanLock(m) == m \notin locked

\* d.mutex.Lock()                                                 (line 178)
GetMutexLock(p) ==
    /\ ~crashed
    /\ pc[p] = "getmutex"
    /\ gmutex = 0
    /\ gmutex' = p
    /\ pc' = [pc EXCEPT ![p] = "lookup"]
    /\ UNCHANGED <<fs, mutexes, allocated, locked, arg, loc, res, calls, crashed,
                   gh, latest, lastOp, wiped, serial>>

\* The same without the deferred unlock: getOrCreateMutex returns with
\* d.mutex still locked.
GetOrCreateMutexHeld(p) ==
    /\ ~crashed
    /\ pc[p] = "lookup"
    /\ LET c == arg[p].c
           ok == Lookup(mutexes, c)
           m == IF ok THEN mutexes[c] ELSE Len(allocated) + 1
       IN
       /\ mutexes' = IF ok THEN mutexes ELSE (c :> m) @@ mutexes
       /\ allocated' = IF ok THEN allocated ELSE Append(allocated, c)
       /\ loc' = [loc EXCEPT ![p].m = m]
    /\ pc' = [pc EXCEPT ![p] = "lock"]
    /\ UNCHANGED <<fs, gmutex, locked, arg, res, calls, crashed, gh, latest,
                   lastOp, wiped, serial>>

\* The body of getOrCreateMutex under d.mutex, and the deferred unlock
\* (lines 179-187).
GetOrCreateMutex(p) ==
    /\ ~crashed
    /\ pc[p] = "lookup"
    /\ LET c == arg[p].c
           ok == Lookup(mutexes, c)
           m == IF ok THEN mutexes[c] ELSE Len(allocated) + 1
       IN
       /\ mutexes' = IF ok THEN mutexes ELSE (c :> m) @@ mutexes
       /\ allocated' = IF ok THEN allocated ELSE Append(allocated, c)
       /\ loc' = [loc EXCEPT ![p].m = m]
    /\ gmutex' = 0
    /\ pc' = [pc EXCEPT ![p] = "lock"]
    /\ UNCHANGED <<fs, locked, arg, res, calls, crashed, gh, latest, lastOp, wiped, serial>>

\* mutex.Lock()                                              (lines 77, 158)
MutexLock(p) ==
    /\ ~crashed
    /\ pc[p] = "lock"
    /\ CanLock(loc[p].m)
    /\ locked' = locked \cup {loc[p].m}
    /\ pc' = [pc EXCEPT ![p] = IF arg[p].op = "Write" THEN "w_mkdir" ELSE "d_stat"]
    /\ gh' = [q \in Procs |->
                IF q = p
                THEN [gh[p] EXCEPT !.prev = FileState(fs, FnlPath(arg[p].c, arg[p].r)),
                                   !.had = IsDir(fs, Dir(p))]
                ELSE IF IsReader(q) /\ Dir(q) = Dir(p)
                THEN [gh[q] EXCEPT !.und = FALSE,
                                   !.since = @ /\ arg[p].op # "Write"]
                ELSE gh[q]]
    /\ lastOp' = [lastOp EXCEPT ![Dir(p)] = <<>>]
    /\ wiped' = IF arg[p].op = "Write" THEN wiped \ {Dir(p)} ELSE wiped
    /\ UNCHANGED <<fs, gmutex, mutexes, allocated, arg, loc, res, calls, crashed, latest,
                   serial>>

\* defer mutex.Unlock(), and the return of Write or Delete.
Unlock(p) ==
    /\ ~crashed
    /\ pc[p] = "unlock"
    /\ locked' = locked \ {loc[p].m}
    /\ Finish(p, loc[p].st, <<>>, <<>>, <<>>)
    /\ LET alone == ~\E q \in Procs \ {p} : InCS(q) /\ Dir(q) = Dir(p)
           good == alone /\ loc[p].st = "ok"
       IN
       /\ lastOp' = [lastOp EXCEPT ![Dir(p)] =
                        IF good /\ arg[p].op = "Write"
                        THEN <<[r |-> arg[p].r, v |-> arg[p].v[1]]>>
                        ELSE <<>>]
       /\ wiped' = IF good /\ arg[p].op = "Delete" /\ arg[p].r = "" /\ gh[p].had
                   THEN wiped \cup {Dir(p)}
                   ELSE wiped
    /\ serial' = IF loc[p].st # "ok" THEN serial
                 ELSE IF arg[p].op = "Write"
                 THEN SeqWrite(serial, arg[p].c, arg[p].r, arg[p].v[1])
                 ELSE SeqDelete(serial, arg[p].c, arg[p].r)
    /\ UNCHANGED <<fs, gmutex, mutexes, allocated, arg, calls, crashed, gh, latest>>

(***************************************************************************)
(* Write (lines 68-100).                                                   *)
(***************************************************************************)
\* Write is called; the checks of its arguments (lines 68-75).
WriteCall(p, Ins) ==
    \E in \in Ins :
       LET c == in[1]
           r == in[2]
           others == {q \in Procs \ {p} :
                         /\ InFlight(q)
                         /\ arg[q].op = "Write"
                         /\ Dir(q) = CollDir(c)
                         /\ arg[q].r # r}
       IN
       /\ Invoke(p, "Write", c, r, <<in[3]>>)
       /\ IF Valid(c, r)
          THEN /\ pc' = [pc EXCEPT ![p] = "getmutex"]
               /\ gh' = [q \in Procs |->
                           IF q \in others THEN [gh[q] EXCEPT !.conc = TRUE]
                           ELSE IF q = p THEN [NoGh EXCEPT !.conc = others # {}]
                           ELSE gh[q]]
               /\ UNCHANGED <<res, loc>>
          ELSE /\ Finish(p, "validation", <<>>, <<>>, <<>>)
               /\ gh' = gh
       /\ UNCHANGED <<fs, gmutex, mutexes, allocated, locked, crashed,
                      latest, lastOp, wiped, serial>>

\* os.MkdirAll(dir, 0755), its calls of stat: the path itself, and while the
\* path is missing and has a parent below the working directory, the parent.
\* loc.todo holds the missing directories, the one nearest to the root
\* first                                                     (lines 84-86)
WriteMkdirAll(p) ==
    /\ ~crashed
    /\ pc[p] = "w_mkdir"
    /\ LET todo == loc[p].todo
           cur == IF todo = <<>> THEN CollDir(arg[p].c) ELSE Parent(Head(todo))
       IN
       IF IsDir(fs, cur)
       THEN /\ pc' = [pc EXCEPT ![p] = IF todo = <<>> THEN "w_open" ELSE "w_mkdir2"]
            /\ loc' = loc
       ELSE IF Exists(fs, cur)
       THEN /\ pc' = [pc EXCEPT ![p] = "unlock"]
            /\ loc' = [loc EXCEPT ![p].st = "io", ![p].todo = <<>>]
       ELSE /\ pc' = [pc EXCEPT ![p] = IF Len(cur) <= 1 THEN "w_mkdir2" ELSE "w_mkdir"]
            /\ loc' = [loc EXCEPT ![p].todo = <<cur>> \o todo]
    /\ UNCHANGED <<fs, gmutex, mutexes, allocated, locked, arg, res, calls, crashed,
                   gh, latest, lastOp, wiped, serial>>

\* os.MkdirAll, its calls of mkdir, and of lstat after a mkdir that failed:
\* when a directory is there after all, MkdirAll goes on; otherwise it
\* returns the error of mkdir                                 (lines 84-86)
WriteMkdir(p) ==
    /\ ~crashed
    /\ pc[p] \in {"w_mkdir2", "w_mkdir3"}
    /\ LET cur == Head(loc[p].todo)
           rest == Tail(loc[p].todo)
           on == IF rest = <<>> THEN "w_open" ELSE "w_mkdir2"
       IN
       IF pc[p] = "w_mkdir2"
       THEN IF ~Exists(fs, cur) /\ IsDir(fs, Parent(cur))
            THEN /\ fs' = [q \in DOMAIN fs \cup {cur} |->
                              IF q = cur THEN DirNode ELSE fs[q]]
                 /\ pc' = [pc EXCEPT ![p] = on]
                 /\ loc' = [loc EXCEPT ![p].todo = rest]
            ELSE /\ fs' = fs
                 /\ pc' = [pc EXCEPT ![p] = "w_mkdir3"]
                 /\ loc' = [loc EXCEPT ![p].st =
                               IF Exists(fs, cur) \/ Exists(fs, Parent(cur))
                               THEN "io" ELSE "notfound"]
       ELSE /\ fs' = fs
            /\ IF IsDir(fs, cur)
               THEN /\ pc' = [pc EXCEPT ![p] = on]
                    /\ loc' = [loc EXCEPT ![p].st = "none", ![p].todo = rest]
               ELSE /\ pc' = [pc EXCEPT ![p] = "unlock"]
                    /\ loc' = [loc EXCEPT ![p].todo = <<>>]
    /\ UNCHANGED <<gmutex, mutexes, allocated, locked, arg, res, calls, crashed,
                   gh, latest, lastOp, wiped, serial>>

\* ioutil.WriteFile(tempPath, b, 0644), its open                   (line 94)
WriteOpen(p) ==
    /\ ~crashed
    /\ pc[p] = "w_open"
    /\ LET tmp == TempPath(FnlPath(arg[p].c, arg[p].r)) IN
       IF OpenOk(fs, tmp)
       THEN /\ fs' = OpenTrunc(fs, tmp, p)
            /\ pc' = [pc EXCEPT ![p] = "w_write"]
            /\ loc' = [loc EXCEPT ![p].off = 0]
       ELSE /\ fs' = fs
            /\ pc' = [pc EXCEPT ![p] = "unlock"]
            /\ loc' = [loc EXCEPT ![p].st =
                          IF IsDir(fs, tmp) THEN "io" ELSE "notfound"]
    /\ UNCHANGED <<gmutex, mutexes, allocated, locked, arg, res, calls, crashed,
                   gh, latest, lastOp, wiped, serial>>

\* ioutil.WriteFile, its writes: the bytes of b reach the file in one or
\* more chunks, then the file is closed                            (line 94)
WriteChunk(p) ==
    /\ ~crashed
    /\ pc[p] = "w_write"
    /\ LET b == Marshal(arg[p].v[1])
           off == loc[p].off
       IN
       \E k \in 1..(Len(b) - off) :
          LET written == WriteAt(fs, p, off, SubSeq(b, off + 1, off + k)) IN
          IF off + k = Len(b)
          THEN /\ fs' = Close(written, p)
               /\ pc' = [pc EXCEPT ![p] = "w_rename"]
               /\ loc' = [loc EXCEPT ![p].off = 0]
          ELSE /\ fs' = written
               /\ pc' = pc
               /\ loc' = [loc EXCEPT ![p].off = off + k]
    /\ UNCHANGED <<gmutex, mutexes, allocated, locked, arg, res, calls, crashed,
                   gh, latest, lastOp, wiped, serial>>

\* return os.Rename(tempPath, fnlPath)                             (line 98)
WriteRename(p) ==
    /\ ~crashed
    /\ pc[p] = "w_rename"
    /\ LET fnl == FnlPath(arg[p].c, arg[p].r)
           tmp == TempPath(fnl)
       IN
       IF RenameOk(fs, tmp, fnl)
       THEN /\ fs' = Rename(fs, tmp, fnl)
            /\ loc' = [loc EXCEPT ![p].st = "ok"]
            /\ latest' = [latest EXCEPT ![Dir(p)] =
                            (arg[p].r :> [v |-> arg[p].v[1], conc |-> gh[p].conc]) @@ @]
            /\ gh' = [q \in Procs |->
                        IF /\ IsReader(q) /\ arg[q].op = "Read"
                           /\ FnlPath(arg[q].c, arg[q].r) = fnl
                        THEN [gh[q] EXCEPT !.seen = @ \cup {fs[tmp].data}]
                        ELSE gh[q]]
       ELSE /\ fs' = fs
            /\ loc' = [loc EXCEPT ![p].st =
                          IF Exists(fs, tmp) THEN "io" ELSE "notfound"]
            /\ UNCHANGED <<latest, gh>>
    /\ pc' = [pc EXCEPT ![p] = "unlock"]
    /\ UNCHANGED <<gmutex, mutexes, allocated, locked, arg, res, calls, crashed,
                   lastOp, wiped, serial>>

(***************************************************************************)
(* Delete (lines 150-174).                                                 *)
(***************************************************************************)
\* Delete is called; the check of its argument (lines 150-156).
DeleteCall(p, Ins) ==
    \E in \in Ins :
       /\ Invoke(p, "Delete", in[1], in[2], <<>>)
       /\ IF in[1] # <<>>
          THEN /\ pc' = [pc EXCEPT ![p] = "getmutex"]
               /\ UNCHANGED <<res, loc>>
          ELSE Finish(p, "validation", <<>>, <<>>, <<>>)
       /\ UNCHANGED <<fs, gmutex, mutexes, allocated, locked, crashed,
                      gh, latest, lastOp, wiped, serial>>

\* The same with the error of stat swallowed: a missing target is reported
\* as success.
DeleteStatSwallow(p) ==
    /\ ~crashed
    /\ pc[p] = "d_stat"
    /\ LET fi == Stat(fs, DeletePath(arg[p].c, arg[p].r)) IN
       IF fi = <<>>
       THEN /\ pc' = [pc EXCEPT ![p] = "unlock"]
            /\ loc' = [loc EXCEPT ![p].st = "ok"]
       ELSE /\ pc' = [pc EXCEPT ![p] = IF fi[1].dir THEN "d_removeall" ELSE "d_remove"]
            /\ loc' = loc
    /\ UNCHANGED <<fs, gmutex, mutexes, allocated, locked, arg, res, calls, crashed,
                   gh, latest, lastOp, wiped, serial>>

\* switch fi, err := stat(dir)                               (lines 163-170)
DeleteStat(p) ==
    /\ ~crashed
    /\ pc[p] = "d_stat"
    /\ LET fi == Stat(fs, DeletePath(arg[p].c, arg[p].r)) IN
       IF fi = <<>>
       THEN /\ pc' = [pc EXCEPT ![p] = "unlock"]
            /\ loc' = [loc EXCEPT ![p].st = "notfound"]
       ELSE /\ pc' = [pc EXCEPT ![p] = IF fi[1].dir THEN "d_removeall" ELSE "d_remove"]
            /\ loc' = loc
    /\ UNCHANGED <<fs, gmutex, mutexes, allocated, locked, arg, res, calls, crashed,
                   gh, latest, lastOp, wiped, serial>>

\* The entry of latest for the file at path goes with the file.
Forget(lt, path) ==
    [d \in DOMAIN lt |->
        [r \in {o \in DOMAIN lt[d] : Join(d, <<o \o ".json">>) # path} |->
            lt[d][r]]]

\* return os.RemoveAll(dir), its first try: unlink(dir), then rmdir(dir).  A
\* path that is not there is no error; a directory with entries is left for
\* the steps that follow                                          (line 167)
DeleteRemoveAll(p) ==
    /\ ~crashed
    /\ pc[p] = "d_removeall"
    /\ LET dir == DeletePath(arg[p].c, arg[p].r) IN
       IF ~Exists(fs, dir)
       THEN /\ pc' = [pc EXCEPT ![p] = "unlock"]
            /\ loc' = [loc EXCEPT ![p].st = "ok"]
            /\ UNCHANGED <<fs, latest>>
       ELSE IF IsRegular(fs, dir)
       THEN /\ fs' = Unlink(fs, dir)
            /\ pc' = [pc EXCEPT ![p] = "unlock"]
            /\ loc' = [loc EXCEPT ![p].st = "ok"]
            /\ latest' = Forget(latest, dir)
       ELSE IF Children(fs, dir) = {}
       THEN /\ fs' = Rmdir(fs, dir)
            /\ pc' = [pc EXCEPT ![p] = "unlock"]
            /\ loc' = [loc EXCEPT ![p].st = "ok"]
            /\ latest' = IF dir \in AllDirs
                         THEN [latest EXCEPT ![dir] = EmptyMap]
                         ELSE latest
       ELSE /\ pc' = [pc EXCEPT ![p] = "d_ra_list"]
            /\ UNCHANGED <<fs, loc, latest>>
    /\ UNCHANGED <<gmutex, mutexes, allocated, locked, arg, res, calls, crashed,
                   gh, lastOp, wiped, serial>>

\* os.RemoveAll, it opens dir and reads the names of its entries; loc.todo
\* holds the names still to be removed                            (line 167)
DeleteRemoveAllList(p) ==
    /\ ~crashed
    /\ pc[p] = "d_ra_list"
    /\ LET dir == DeletePath(arg[p].c, arg[p].r)
           names == ReadDir(fs, dir)
       IN
       IF ~Exists(fs, dir)
       THEN /\ pc' = [pc EXCEPT ![p] = "unlock"]
            /\ loc' = [loc EXCEPT ![p].st = "ok"]
            /\ UNCHANGED <<fs, latest>>
       ELSE IF IsRegular(fs, dir)
       THEN /\ fs' = Unlink(fs, dir)
            /\ pc' = [pc EXCEPT ![p] = "unlock"]
            /\ loc' = [loc EXCEPT ![p].st = "ok"]
            /\ latest' = Forget(latest, dir)
       ELSE /\ pc' = [pc EXCEPT ![p] =
                         IF names = <<>> THEN "d_ra_rmdir" ELSE "d_ra_unlink"]
            /\ loc' = [loc EXCEPT ![p].todo = names]
            /\ UNCHANGED <<fs, latest>>
    /\ UNCHANGED <<gmutex, mutexes, allocated, locked, arg, res, calls, crashed,
                   gh, lastOp, wiped, serial>>

\* os.RemoveAll, it unlinks one of the names it read, in the order in which
\* the directory gave them; a name that is gone by now is no error.  The
\* entries of a collection's directory are regular files         (line 167)
DeleteRemoveAllUnlink(p) ==
    /\ ~crashed
    /\ pc[p] = "d_ra_unlink"
    /\ \E i \in 1..Len(loc[p].todo) :
          LET path == EntryPath(DeletePath(arg[p].c, arg[p].r), loc[p].todo[i])
              rest == Drop(loc[p].todo, i)
          IN
          /\ IF IsRegular(fs, path)
             THEN /\ fs' = Unlink(fs, path)
                  /\ latest' = Forget(latest, path)
             ELSE UNCHANGED <<fs, latest>>
          /\ loc' = [loc EXCEPT ![p].todo = rest]
          /\ pc' = [pc EXCEPT ![p] = IF rest = <<>> THEN "d_ra_rmdir" ELSE "d_ra_unlink"]
    /\ UNCHANGED <<gmutex, mutexes, allocated, locked, arg, res, calls, crashed,
                   gh, lastOp, wiped, serial>>

\* os.RemoveAll, its last step rmdir(dir): a directory that is gone is no
\* error; one that has an entry again stays, with that entry, and RemoveAll
\* returns the error                                              (line 167)
DeleteRemoveAllRmdir(p) ==
    /\ ~crashed
    /\ pc[p] = "d_ra_rmdir"
    /\ LET dir == DeletePath(arg[p].c, arg[p].r) IN
       IF ~Exists(fs, dir)
       THEN /\ fs' = fs
            /\ loc' = [loc EXCEPT ![p].st = "ok"]
            /\ latest' = latest
       ELSE IF IsDir(fs, dir) /\ Children(fs, dir) = {}
       THEN /\ fs' = Rmdir(fs, dir)
            /\ loc' = [loc EXCEPT ![p].st = "ok"]
            /\ latest' = IF dir \in AllDirs
                         THEN [latest EXCEPT ![dir] = EmptyMap]
                         ELSE latest
       ELSE /\ fs' = fs
            /\ loc' = [loc EXCEPT ![p].st = "io"]
            /\ latest' = latest
    /\ pc' = [pc EXCEPT ![p] = "unlock"]
    /\ UNCHANGED <<gmutex, mutexes, allocated, locked, arg, res, calls, crashed,
                   gh, lastOp, wiped, serial>>

\* return os.Remove(dir + ".json")                                (line 169)
DeleteRemove(p) ==
    /\ ~crashed
    /\ pc[p] = "d_remove"
    /\ LET target == Suffix(DeletePath(arg[p].c, arg[p].r), ".json") IN
       IF Exists(fs, target) /\ Children(fs, target) = {}
       THEN /\ fs' = IF IsDir(fs, target) THEN Rmdir(fs, target)
                       ELSE Unlink(fs, target)
            /\ loc' = [loc EXCEPT ![p].st = "ok"]
            /\ latest' = [latest EXCEPT ![Dir(p)] =
                            [r \in DOMAIN @ \ {arg[p].r} |-> @[r]]]
       ELSE /\ fs' = fs
            /\ loc' = [loc EXCEPT ![p].st =
                          IF Exists(fs, target) THEN "io" ELSE "notfound"]
            /\ latest' = latest
    /\ pc' = [pc EXCEPT ![p] = "unlock"]
    /\ UNCHANGED <<gmutex, mutexes, allocated, locked, arg, res, calls, crashed,
                   gh, lastOp, wiped, serial>>

(***************************************************************************)
(* Read (lines 102-122).                                                   *)
(***************************************************************************)
\* Read is called; the checks of its arguments (lines 102-110).
ReadCall(p, Ins) ==
    \E in \in Ins :
       /\ Invoke(p, "Read", in[1], in[2], <<>>)
       /\ IF Valid(in[1], in[2])
          THEN /\ pc' = [pc EXCEPT ![p] = "r_stat"]
               /\ gh' = [gh EXCEPT ![p] = StartGh("Read", in[1], in[2])]
               /\ UNCHANGED <<res, loc>>
          ELSE /\ Finish(p, "validation", <<>>, <<>>, <<>>)
               /\ gh' = gh
       /\ UNCHANGED <<fs, gmutex, mutexes, allocated, locked, crashed,
                      latest, lastOp, wiped, serial>>

\* if _, err := stat(record); err != nil { return err }      (lines 112-114)
ReadStat(p) ==
    /\ ~crashed
    /\ pc[p] = "r_stat"
    /\ IF Stat(fs, RecordPath(arg[p].c, arg[p].r)) = <<>>
       THEN Finish(p, "notfound", <<>>, <<>>, <<>>)
       ELSE /\ pc' = [pc EXCEPT ![p] = "r_readfile"]
            /\ UNCHANGED <<res, loc>>
    /\ UNCHANGED <<fs, gmutex, mutexes, allocated, locked, arg, calls, crashed,
                   gh, latest, lastOp, wiped, serial>>

\* b, err := ioutil.ReadFile(record + ".json"), its open      (lines 116-119)
ReadOpen(p) ==
    /\ ~crashed
    /\ pc[p] = "r_readfile"
    /\ LET path == Suffix(RecordPath(arg[p].c, arg[p].r), ".json")
           st == OpenStatus(fs, path)
       IN
       IF st # "ok"
       THEN /\ Finish(p, st, <<>>, <<>>, <<>>)
            /\ fs' = fs
       ELSE /\ fs' = OpenRead(fs, path, p)
            /\ pc' = [pc EXCEPT ![p] = "r_read"]
            /\ loc' = [loc EXCEPT ![p].buf = <<>>]
            /\ res' = res
    /\ UNCHANGED <<gmutex, mutexes, allocated, locked, arg, calls, crashed,
                   gh, latest, lastOp, wiped, serial>>

\* ioutil.ReadFile, its reads: each takes the bytes the file has beyond the
\* ones read so far; the read that finds none ends it, the file is closed,
\* and Read returns json.Unmarshal(b, &v)                    (lines 116-121)
ReadReadFile(p) ==
    /\ ~crashed
    /\ pc[p] = "r_read"
    /\ LET chunk == ReadAt(fs, p, Len(loc[p].buf))
           b == loc[p].buf
           v == Unmarshal(b)
       IN
       IF chunk = <<>>
       THEN /\ fs' = Close(fs, p)
            /\ Finish(p, IF v = <<>> THEN "decode" ELSE "ok", v, b, <<>>)
       ELSE /\ fs' = fs
            /\ loc' = [loc EXCEPT ![p].buf = b \o chunk]
            /\ UNCHANGED <<pc, res>>
    /\ UNCHANGED <<gmutex, mutexes, allocated, locked, arg, calls, crashed,
                   gh, latest, lastOp, wiped, serial>>

(***************************************************************************)
(* ReadAll (lines 124-148).                                                *)
(***************************************************************************)
\* ReadAll is called; the check of its argument (lines 124-129).
ReadAllCall(p, Ins) ==
    \E c \in Ins :
       /\ Invoke(p, "ReadAll", c, "", <<>>)
       /\ IF c # <<>>
          THEN /\ pc' = [pc EXCEPT ![p] = "ra_stat"]
               /\ gh' = [gh EXCEPT ![p] = StartGh("ReadAll", c, "")]
               /\ UNCHANGED <<res, loc>>
          ELSE /\ Finish(p, "validation", <<>>, <<>>, <<>>)
               /\ gh' = gh
       /\ UNCHANGED <<fs, gmutex, mutexes, allocated, locked, crashed,
                      latest, lastOp, wiped, serial>>

\* if _, err := stat(dir); err != nil { return nil, err }    (lines 131-133)
ReadAllStat(p) ==
    /\ ~crashed
    /\ pc[p] = "ra_stat"
    /\ IF Stat(fs, CollDir(arg[p].c)) = <<>>
       THEN Finish(p, "notfound", <<>>, <<>>, <<>>)
       ELSE /\ pc' = [pc EXCEPT ![p] = "ra_readdir"]
            /\ UNCHANGED <<res, loc>>
    /\ UNCHANGED <<fs, gmutex, mutexes, allocated, locked, arg, calls, crashed,
                   gh, latest, lastOp, wiped, serial>>

\* files, _ := ioutil.ReadDir(dir), it opens dir and reads the names of its
\* entries: an error leaves files empty                           (line 135)
ReadAllReadDir(p) ==
    /\ ~crashed
    /\ pc[p] = "ra_readdir"
    /\ LET names == ReadDir(fs, CollDir(arg[p].c)) IN
       IF names = <<>>
       THEN Finish(p, "ok", <<>>, <<>>, <<>>)
       ELSE /\ pc' = [pc EXCEPT ![p] = "ra_lstat"]
            /\ loc' = [loc EXCEPT ![p].todo = names, ![p].files = {}]
            /\ res' = res
    /\ UNCHANGED <<fs, gmutex, mutexes, allocated, locked, arg, calls, crashed,
                   gh, latest, lastOp, wiped, serial>>

\* ioutil.ReadDir, its lstat of one of the names it read, in the order in
\* which the directory gave them: a name that is gone by now is left out.
\* After the last, the entries that remain are sorted by name      (line 135)
ReadAllLstat(p) ==
    /\ ~crashed
    /\ pc[p] = "ra_lstat"
    /\ \E i \in 1..Len(loc[p].todo) :
          LET name == loc[p].todo[i]
              rest == Drop(loc[p].todo, i)
              files == IF Exists(fs, EntryPath(CollDir(arg[p].c), name))
                       THEN loc[p].files \cup {name}
                       ELSE loc[p].files
          IN
          IF rest # <<>>
          THEN /\ loc' = [loc EXCEPT ![p].todo = rest, ![p].files = files]
               /\ UNCHANGED <<pc, res>>
          ELSE IF files = {}
          THEN Finish(p, "ok", <<>>, <<>>, <<>>)
          ELSE /\ pc' = [pc EXCEPT ![p] = "ra_readfile"]
               /\ loc' = [loc EXCEPT ![p].todo = SortByName(files), ![p].files = {}]
               /\ res' = res
    /\ UNCHANGED <<fs, gmutex, mutexes, allocated, locked, arg, calls, crashed,
                   gh, latest, lastOp, wiped, serial>>

\* One round of the loop over files: ioutil.ReadFile(filepath.Join(dir,
\* file.Name())), its open                                  (lines 138-142)
ReadAllOpen(p) ==
    /\ ~crashed
    /\ pc[p] = "ra_readfile"
    /\ LET path == EntryPath(CollDir(arg[p].c), Head(loc[p].todo))
           st == OpenStatus(fs, path)
       IN
       IF st # "ok"
       THEN /\ Finish(p, st, <<>>, <<>>, <<>>)
            /\ fs' = fs
       ELSE /\ fs' = OpenRead(fs, path, p)
            /\ pc' = [pc EXCEPT ![p] = "ra_read"]
            /\ loc' = [loc EXCEPT ![p].buf = <<>>]
            /\ res' = res
    /\ UNCHANGED <<gmutex, mutexes, allocated, locked, arg, calls, crashed,
                   gh, latest, lastOp, wiped, serial>>

\* ioutil.ReadFile, its reads, as in Read; the bytes are appended to the
\* records, and after the last file ReadAll returns them    (lines 138-146)
ReadAllReadFile(p) ==
    /\ ~crashed
    /\ pc[p] = "ra_read"
    /\ LET chunk == ReadAt(fs, p, Len(loc[p].buf))
           b == loc[p].buf
           rest == Tail(loc[p].todo)
       IN
       IF chunk # <<>>
       THEN /\ fs' = fs
            /\ loc' = [loc EXCEPT ![p].buf = b \o chunk]
            /\ UNCHANGED <<pc, res>>
       ELSE /\ fs' = Close(fs, p)
            /\ IF rest = <<>>
               THEN Finish(p, "ok", <<>>, <<>>, Append(loc[p].recs, b))
               ELSE /\ loc' = [loc EXCEPT ![p].todo = rest, ![p].buf = <<>>,
                                          ![p].recs = Append(@, b)]
                    /\ pc' = [pc EXCEPT ![p] = "ra_readfile"]
                    /\ res' = res
    /\ UNCHANGED <<gmutex, mutexes, allocated, locked, arg, calls, crashed,
                   gh, latest, lastOp, wiped, serial>>

(***************************************************************************)
(* Specifications.                                                         *)
(***************************************************************************)
Step(p) ==
    \/ Return(p)
    \/ GetMutexLock(p)
    \/ GetOrCreateMutex(p)
    \/ MutexLock(p)
    \/ Unlock(p)
    \/ WriteMkdirAll(p)
    \/ WriteMkdir(p)
    \/ WriteOpen(p)
    \/ WriteChunk(p)
    \/ WriteRename(p)
    \/ DeleteStat(p)
    \/ DeleteRemoveAll(p)
    \/ DeleteRemoveAllList(p)
    \/ DeleteRemoveAllUnlink(p)
    \/ DeleteRemoveAllRmdir(p)
    \/ DeleteRemove(p)
    \/ ReadStat(p)
    \/ ReadOpen(p)
    \/ ReadReadFile(p)
    \/ ReadAllStat(p)
    \/ ReadAllReadDir(p)
    \/ ReadAllLstat(p)
    \/ ReadAllOpen(p)
    \/ ReadAllReadFile(p)

Call(p) ==
    \/ WriteCall(p, WriteInputs)
    \/ ReadCall(p, ReadInputs)
    \/ ReadAllCall(p, ReadAllInputs)
    \/ DeleteCall(p, DeleteInputs)

Next == \E p \in Procs : Call(p) \/ Step(p)

\* Concurrent callers on one driver; the filesystem never fails.
Spec == Init /\ [][Next]_vars

(***************************************************************************)
(* Faults: a filesystem step of Write fails, or the process crashes.       *)
(***************************************************************************)
WriteCSPcs == {"w_mkdir", "w_mkdir2", "w_mkdir3", "w_open", "w_write", "w_rename"}

\* The same without the deferred unlock: the error is returned with the
\* collection's mutex still locked.
WriteFailNoUnlock(p) ==
    /\ ~crashed
    /\ pc[p] \in WriteCSPcs
    /\ fs' = IF pc[p] = "w_write" THEN Close(fs, p) ELSE fs
    /\ Finish(p, "io", <<>>, <<>>, <<>>)
    /\ UNCHANGED <<gmutex, mutexes, allocated, locked, arg, calls, crashed,
                   gh, latest, lastOp, wiped, serial>>

\* os.MkdirAll, ioutil.WriteFile or os.Rename returns an error: Write returns
\* it (lines 84-98).  WriteFile closes the file before it returns.
WriteFail(p) ==
    /\ ~crashed
    /\ pc[p] \in WriteCSPcs
    /\ fs' = IF pc[p] = "w_write" THEN Close(fs, p) ELSE fs
    /\ loc' = [loc EXCEPT ![p].st = "io", ![p].off = 0, ![p].todo = <<>>]
    /\ pc' = [pc EXCEPT ![p] = "unlock"]
    /\ UNCHANGED <<gmutex, mutexes, allocated, locked, arg, res, calls, crashed,
                   gh, latest, lastOp, wiped, serial>>

\* The process dies while a Write is inside its locked section: every
\* goroutine stops where it is and only the filesystem remains.
Crash ==
    /\ ~crashed
    /\ \E p \in Procs : pc[p] \in WriteCSPcs
    /\ crashed' = TRUE
    /\ UNCHANGED <<fs, gmutex, mutexes, allocated, locked, pc, arg, loc, res, calls,
                   gh, latest, lastOp, wiped, serial>>

\* Writes that may fail, and Reads that observe what they leave.
NextFault ==
    \/ \E p \in Procs :
          \/ WriteCall(p, WriteInputs)
          \/ ReadCall(p, ReadInputs)
          \/ Return(p)
          \/ GetMutexLock(p)
          \/ GetOrCreateMutex(p)
          \/ MutexLock(p)
          \/ Unlock(p)
          \/ WriteMkdirAll(p)
          \/ WriteMkdir(p)
          \/ WriteOpen(p)
          \/ WriteChunk(p)
          \/ WriteRename(p)
          \/ ReadStat(p)
          \/ ReadOpen(p)
          \/ ReadReadFile(p)
          \/ WriteFail(p)
    \/ Crash

\* Concurrent callers, with failing filesystem steps and a crash.
SpecFault == Init /\ [][NextFault]_vars

(***************************************************************************)
(* Names that filepath.Join and stat treat specially: the resource "."     *)
(* and a collection "a.json" beside the collection "a".                    *)
(***************************************************************************)
NamesWrites == {<<<<"a">>, ".", 1>>, <<<<"a">>, "x", 12>>, <<<<"a.json">>, "x", 12>>}
NamesReads == {<<<<"a">>, ".">>, <<<<"a">>, "x">>}
NamesReadAlls == {<<"a">>}
NamesDeletes == {<<<<"a">>, "">>, <<<<"a">>, ".">>, <<<<"a">>, "x">>}

NextNames ==
    \E p \in Procs :
       \/ WriteCall(p, NamesWrites)
       \/ ReadCall(p, NamesReads)
       \/ ReadAllCall(p, NamesReadAlls)
       \/ DeleteCall(p, NamesDeletes)
       \/ Step(p)

\* Concurrent callers that use such names.
SpecNames == Init /\ [][NextNames]_vars

(***************************************************************************)
(* Names whose bare path exists: the resource "x.json" beside the resource *)
(* "x", and the collection ".", whose directory is the root, so that its   *)
(* resource "a" is the file a.json beside the directory of collection "a". *)
(***************************************************************************)
PathsWrites == {<<<<"a">>, "x", 1>>, <<<<".">>, "a", 12>>}
PathsReads == {<<<<"a">>, "x">>, <<<<"a">>, "x.json">>}
PathsReadAlls == {<<"a">>}
PathsDeletes == {<<<<"a">>, ".">>, <<<<"a">>, "x">>}

NextPaths ==
    \E p \in Procs :
       \/ WriteCall(p, PathsWrites)
       \/ ReadCall(p, PathsReads)
       \/ ReadAllCall(p, PathsReadAlls)
       \/ DeleteCall(p, PathsDeletes)
       \/ Step(p)

\* Concurrent callers that use such names.
SpecPaths == Init /\ [][NextPaths]_vars

(***************************************************************************)
(* Two names of one directory: "a" and "./a".                              *)
(***************************************************************************)
AliasWrites == {<<<<"a">>, "x", 1>>, <<<<".", "a">>, "x", 12>>}
AliasReads == {<<<<"a">>, "x">>}
AliasReadAlls == {<<"a">>}
AliasDeletes == {<<<<"a">>, "">>, <<<<".", "a">>, "x">>}

NextAlias ==
    \E p \in Procs :
       \/ WriteCall(p, AliasWrites)
       \/ ReadCall(p, AliasReads)
       \/ ReadAllCall(p, AliasReadAlls)
       \/ DeleteCall(p, AliasDeletes)
       \/ Step(p)

\* Concurrent callers that name one collection in two ways.
SpecAlias == Init /\ [][NextAlias]_vars

(***************************************************************************)
(* Fair scheduling: every goroutine that can take a step eventually takes  *)
(* one, and a goroutine blocked in mutex.Lock() is woken when the mutex is *)
(* free.  Filesystem steps of Write may fail.                              *)
(***************************************************************************)
LiveWrites == {<<<<"a">>, "x", 1>>}
LiveReads == {<<<<"a">>, "x">>}
LiveReadAlls == {<<"a">>}
LiveDeletes == {<<<<"a">>, "">>, <<<<"a">>, "x">>}

NextLive ==
    \E p \in Procs :
       \/ WriteCall(p, LiveWrites)
       \/ ReadCall(p, LiveReads)
       \/ ReadAllCall(p, LiveReadAlls)
       \/ DeleteCall(p, LiveDeletes)
       \/ Step(p)
       \/ WriteFail(p)

Fairness == \A p \in Procs : WF_vars(Step(p))

SpecLive == Init /\ [][NextLive]_vars /\ Fairness

(***************************************************************************)
(* Properties.                                                             *)
(***************************************************************************)
Done(p, op) == pc[p] = "done" /\ arg[p].op = op

\* C1: at most one Write or Delete on a collection name is between
\* mutex.Lock() and mutex.Unlock() of that collection at any time.
C1_MutualExclusion ==
    \A p, q \in Procs :
        (p # q /\ InCS(p) /\ InCS(q)) => arg[p].c # arg[q].c

\* A Write is writing its temp file while a Delete on the same collection
\* waits for the same mutex.
C1_Witness ==
    \E p, q \in Procs :
        /\ pc[p] = "w_write" /\ pc[q] = "lock"
        /\ arg[q].op = "Delete"
        /\ arg[q].c = arg[p].c
        /\ loc[q].m = loc[p].m

\* C2: a Read that succeeds returns the complete serialization of a value
\* that was fully written to the resource: the version it found when it was
\* called or one that a Write renamed into place during the Read.
C2_ReadSeesCompleteVersion ==
    \A p \in Procs :
        (Done(p, "Read") /\ res[p].st = "ok") =>
            /\ res[p].raw \in gh[p].seen
            /\ res[p].val[1] \in Values
            /\ res[p].raw = Digits(res[p].val[1]) \o <<"\n">>

\* A Read has returned while a Write to the same resource replaced the
\* version the Read was called on.
C2_Witness ==
    \E p \in Procs :
        /\ Done(p, "Read") /\ res[p].st = "ok"
        /\ Cardinality(gh[p].seen) = 2

\* C3: when Write(c, r, v) returned success and no Write or Delete on c has
\* run since, up to the return of a Read(c, r), that Read succeeds with v.
C3_RoundTrip ==
    \A p \in Procs :
        (/\ Done(p, "Read")
         /\ gh[p].und
         /\ lastOp[Dir(p)] # <<>>
         /\ lastOp[Dir(p)][1].r = arg[p].r)
        => (res[p].st = "ok" /\ res[p].val = <<lastOp[Dir(p)][1].v>>)

\* C4: while a Write is inside its locked section, whatever step it has
\* reached or failed at, and so after a crash there, the resource file holds
\* the complete previous version (or is absent as before) or the complete new
\* version; after a failed step it holds the previous version.
C4_CrashAtomicWrite ==
    \A p \in Procs :
        (arg[p].op = "Write" /\ InCS(p)) =>
            LET now == FileState(fs, FnlPath(arg[p].c, arg[p].r)) IN
            /\ now = gh[p].prev \/ now = <<Digits(arg[p].v[1]) \o <<"\n">>>>
            /\ loc[p].st \notin {"none", "ok"} => now = gh[p].prev

\* The process has crashed while a Write had written part of its temp file
\* over an existing resource.
C4_Witness ==
    \E p \in Procs :
        /\ crashed
        /\ pc[p] = "w_write" /\ loc[p].off > 0
        /\ gh[p].prev # <<>>
        /\ gh[p].prev # <<Marshal(arg[p].v[1])>>

\* C5: a Write that overlapped a Write to another resource of the same
\* collection returns success, and once two such Writes have stored their
\* resources, a Read of either, with no Write or Delete on the collection
\* running, succeeds with the value written to that resource.
C5_ConcurrentWrites ==
    \A p \in Procs :
        /\ (Done(p, "Write") /\ gh[p].conc) => res[p].st = "ok"
        /\ (/\ Done(p, "Read")
            /\ gh[p].und
            /\ arg[p].r \in DOMAIN latest[Dir(p)]
            /\ latest[Dir(p)][arg[p].r].conc
            /\ \E r \in DOMAIN latest[Dir(p)] \ {arg[p].r} : latest[Dir(p)][r].conc)
           => (res[p].st = "ok" /\ res[p].val = <<latest[Dir(p)][arg[p].r].v>>)

\* C6: a Write called with an empty collection or resource name returns a
\* validation error in that step and leaves the filesystem, the global mutex,
\* the registry and the per-collection mutexes as they were.
C6_InvalidWriteNoEffect ==
    [][\A p \in Procs :
          (/\ pc[p] = "idle"
           /\ arg'[p].op = "Write"
           /\ (arg'[p].c = <<>> \/ arg'[p].r = ""))
          => /\ pc'[p] = "done"
             /\ res'[p].st = "validation"
             /\ UNCHANGED <<fs, gmutex, mutexes, allocated, locked>>]_vars

\* Both kinds of invalid Write have returned.
C6_Witness ==
    \E p, q \in Procs :
        /\ Done(p, "Write") /\ arg[p].c = <<>> /\ res[p].st = "validation"
        /\ Done(q, "Write") /\ arg[q].c # <<>> /\ arg[q].r = ""
        /\ res[q].st = "validation"

\* C7: after Delete(c, "") returned success, and until a Write on c runs,
\* neither the collection directory nor anything below it exists, and every
\* ReadAll(c) and Read(c, r) called in that time fails with not-found.
C7_DeleteCollection ==
    /\ \A d \in wiped : \A path \in DOMAIN fs : path # d /\ ~IsUnder(path, d)
    /\ \A p \in Procs :
          (pc[p] = "done" /\ gh[p].since) => res[p].st = "notfound"

\* C8: no step of Read changes what the paths of the filesystem show, and a
\* Read that probes or opens while the collection holds no file <r>.json,
\* whether or not the collection directory exists, reads no file and returns
\* nothing but a not-found error.
C8_ReadNotFound ==
    [][\A p \in Procs :
          (/\ arg[p].op = "Read"
           /\ pc[p] \in {"r_stat", "r_readfile", "r_read"}
           /\ (pc'[p] # pc[p] \/ loc'[p] # loc[p]))
          => /\ Visible(fs') = Visible(fs)
             /\ (/\ pc[p] \in {"r_stat", "r_readfile"}
                 /\ ~Exists(fs, Join(CollDir(arg[p].c), <<arg[p].r \o ".json">>)))
                => /\ pc'[p] # "r_read"
                   /\ pc'[p] = "done" => res'[p].st = "notfound"]_vars

\* C9: with no Write or Delete on the collection running, ReadAll on an
\* existing collection returns exactly one document per stored resource, the
\* serialization of the value last written to it; and a successful Delete of
\* a stored resource leaves the collection directory in place, so that ReadAll
\* returns an empty sequence without error once the last resource is deleted.
C9_ReadAllQuiescent ==
    \A p \in Procs :
        /\ (Done(p, "ReadAll") /\ gh[p].und /\ IsDir(fs, Dir(p))) =>
              LET stored == latest[Dir(p)]
                  docs == res[p].recs
              IN
              /\ res[p].st = "ok"
              /\ Len(docs) = Cardinality(DOMAIN stored)
              /\ \A r \in DOMAIN stored :
                    \E i \in 1..Len(docs) : docs[i] = Digits(stored[r].v) \o <<"\n">>
              /\ \A i \in 1..Len(docs) :
                    \E r \in DOMAIN stored : docs[i] = Digits(stored[r].v) \o <<"\n">>
        /\ (/\ arg[p].op = "Delete" /\ arg[p].r # "" /\ gh[p].prev # <<>>
            /\ pc[p] = "unlock" /\ loc[p].st = "ok")
           => IsDir(fs, Dir(p))

\* C10: a mutex is created at most once per collection name, every Write or
\* Delete past getOrCreateMutex holds the mutex registered for its name, and a
\* registered entry is never removed or replaced.
C10_LockRegistry ==
    /\ [](\A i, j \in 1..Len(allocated) : allocated[i] = allocated[j] => i = j)
    /\ [](\A p \in Procs :
             (pc[p] = "lock" \/ InCS(p)) =>
                 /\ arg[p].c \in DOMAIN mutexes
                 /\ loc[p].m = mutexes[arg[p].c])
    /\ [][\A c \in DOMAIN mutexes :
             c \in DOMAIN mutexes' /\ mutexes'[c] = mutexes[c]]_vars

\* A Delete holds the one mutex of a collection whose directory was deleted
\* before.
C10_Witness ==
    \E p \in Procs :
        /\ pc[p] = "d_stat"
        /\ Dir(p) \in wiped
        /\ loc[p].m = mutexes[arg[p].c]
        /\ Len(allocated) = 1

\* C11: a Write or Delete that waits for its collection's mutex can take it
\* whenever no other caller is inside the locked section of the same
\* collection name, whatever callers on other names hold; once inside, its
\* next step can be taken.
C11_DifferentCollectionsParallel ==
    \A p \in Procs :
        /\ (/\ pc[p] = "lock"
            /\ \A q \in Procs \ {p} : InCS(q) => arg[q].c # arg[p].c)
           => ENABLED MutexLock(p)
        /\ InCS(p) => ENABLED Step(p)

\* A Write on "a.json" and a Delete on "a" are inside their locked sections
\* at the same time, each past its first filesystem step.
C11_Witness ==
    \E p, q \in Procs :
        /\ arg[p].op = "Write" /\ arg[p].c = <<"a.json">> /\ pc[p] = "w_write"
        /\ arg[q].op = "Delete" /\ arg[q].c = <<"a">> /\ pc[q] = "d_removeall"

\* C12: every document of a sequence that ReadAll returned with success is
\* the complete serialization of a value handed to Write.
C12_ReadAllNoPartialFile ==
    \A p \in Procs :
        (Done(p, "ReadAll") /\ res[p].st = "ok") =>
            \A i \in 1..Len(res[p].recs) :
                \E v \in Values : res[p].recs[i] = Digits(v) \o <<"\n">>

\* C13: under fair scheduling every call that was made returns; whenever a
\* call is in progress some caller can take a step; and a mutex is locked
\* only on behalf of a call in progress that is about to unlock it (the global
\* mutex inside getOrCreateMutex, a collection mutex inside the locked section
\* of Write or Delete), so that every lock taken is released by the time the
\* call returns, also when a step of Write failed.
C13_Termination ==
    /\ \A p \in Procs : InFlight(p) ~> (pc[p] = "done")
    /\ []((\E p \in Procs : InFlight(p)) => (\E p \in Procs : ENABLED Step(p)))
    /\ [](gmutex # 0 => pc[gmutex] = "lookup")
    /\ [](\A m \in locked : \E p \in Procs : InCS(p) /\ loc[p].m = m)

\* A Write returned the error of a failed step and left its mutex unlocked,
\* while another caller that waited for that mutex is inside its locked
\* section.
C13_Witness ==
    \E p, q \in Procs :
        /\ Done(p, "Write") /\ res[p].st = "io"
        /\ InCS(q) /\ arg[q].c = arg[p].c
        /\ locked = {loc[q].m}

\* C14: a caller that waits for a collection mutex, is inside the locked
\* section of Write or Delete, or is at a filesystem step of Read or ReadAll
\* does not hold the global mutex; the global mutex is held only by a caller
\* inside getOrCreateMutex.
C14_GlobalLockOnlyForLookup ==
    /\ \A p \in Procs :
          pc[p] \in {"lock"} \cup CSPcs
                    \cup {"r_stat", "r_readfile", "r_read", "ra_stat", "ra_readdir",
                          "ra_lstat", "ra_readfile", "ra_read"}
          => gmutex # p
    /\ \A p \in Procs :
          gmutex = p => (arg[p].op \in {"Write", "Delete"} /\ pc[p] = "lookup")

\* One caller holds the global mutex for its lookup while another is writing
\* its temp file inside the locked section of the same collection.
C14_Witness ==
    \E p, q \in Procs :
        /\ gmutex = p /\ pc[p] = "lookup"
        /\ pc[q] = "w_write" /\ loc[q].off > 0
        /\ arg[q].c = arg[p].c

\* C15: with no Write or Delete on the collection running during the call,
\* a Read that returns while the bare path root/c/r is a regular file returns
\* the content of that file, and one that returns while the bare path does
\* not exist and root/c/r.json is a regular file returns the content of
\* root/c/r.json; and a Read returns not-found only when neither path exists.
C15_ReadPathResolution ==
    [][\A p \in Procs :
          (/\ arg[p].op = "Read"
           /\ pc[p] \in {"r_stat", "r_readfile", "r_read"}
           /\ pc'[p] = "done")
          => LET bare == Join(RootDir, arg[p].c \o <<arg[p].r>>)
                 qualified == Suffix(bare, ".json")
             IN  /\ (gh[p].und /\ IsRegular(fs, bare))
                    => (res'[p].st \in {"ok", "decode"} /\ res'[p].raw = fs[bare].data)
                 /\ (gh[p].und /\ ~Exists(fs, bare) /\ IsRegular(fs, qualified))
                    => (res'[p].st \in {"ok", "decode"}
                        /\ res'[p].raw = fs[qualified].data)
                 /\ res'[p].st = "notfound"
                    => (~Exists(fs, bare) /\ ~Exists(fs, qualified))]_vars

\* C16: ReadAll returns an error when the collection directory does not
\* exist at the moment its entries are enumerated, and when an entry it
\* listed cannot be read; when it returns success, the sequence holds the
\* content of every entry it listed.
C16_ReadAllFailFast ==
    [][\A p \in Procs :
          /\ (pc[p] = "ra_readdir" /\ pc'[p] # pc[p] /\ ~IsDir(fs, Join(RootDir, arg[p].c)))
             => (pc'[p] = "done" /\ res'[p].st \notin {"ok", "none"})
          /\ (/\ pc[p] = "ra_readfile"
              /\ pc'[p] # pc[p]
              /\ ~IsRegular(fs, Join(RootDir, arg[p].c \o <<Head(loc[p].todo)>>)))
             => (pc'[p] = "done" /\ res'[p].st \notin {"ok", "none"})
          /\ (pc[p] = "ra_read" /\ pc'[p] = "done" /\ res'[p].st = "ok")
             => (Len(res'[p].recs) = Len(loc[p].recs) + Len(loc[p].todo))]_vars

\* C17: a Delete whose probe finds neither the bare path root/c/r nor that
\* path with ".json" goes straight to its return with a not-found error, and
\* a Delete that returns not-found has left the filesystem unchanged from the
\* probe on and returns with its collection mutex unlocked.
C17_DeleteNotFound ==
    [][\A p \in Procs :
          LET bare == Join(RootDir, Join(arg[p].c, <<arg[p].r>>)) IN
          /\ (/\ pc[p] = "d_stat" /\ pc'[p] # pc[p]
              /\ ~Exists(fs, bare) /\ ~Exists(fs, Suffix(bare, ".json")))
             => (pc'[p] = "unlock" /\ loc'[p].st = "notfound" /\ fs' = fs)
          /\ (/\ arg[p].op = "Delete" /\ pc[p] = "unlock" /\ pc'[p] # pc[p]
              /\ loc[p].st = "notfound")
             => /\ pc'[p] = "done" /\ res'[p].st = "notfound"
                /\ fs' = fs
                /\ loc[p].m \in locked /\ loc[p].m \notin locked']_vars

\* A Delete of a resource that does not exist in an existing collection has
\* returned not-found, and the mutex it held is unlocked.
C17_Witness ==
    \E p \in Procs :
        /\ Done(p, "Delete") /\ arg[p].r # "" /\ res[p].st = "notfound"
        /\ IsDir(fs, Dir(p)) /\ Children(fs, Dir(p)) # {}
        /\ mutexes[arg[p].c] \notin locked

\* C18: the step by which a Delete(c, r) with non-empty r that found a
\* regular file removes it takes away exactly the file of resource r of
\* collection c, root/c/r.json, and leaves every other path as it was; and a
\* Read(c, r) called after the resource was deleted, with no Write or Delete
\* on c running, fails with not-found.
C18_DeleteResourceFrame ==
    /\ [][\A p \in Procs :
             (pc[p] = "d_remove" /\ arg[p].r # "" /\ pc'[p] # pc[p]) =>
                 LET target == Join(Join(RootDir, arg[p].c), <<arg[p].r \o ".json">>)
                     before == Visible(fs)
                     after == Visible(fs')
                 IN
                 /\ DOMAIN before \ {target} \subseteq DOMAIN after
                 /\ DOMAIN after \subseteq DOMAIN before
                 /\ \A path \in DOMAIN after : after[path] = before[path]
                 /\ loc'[p].st = "ok" => target \notin DOMAIN after]_vars
    /\ [](\A p \in Procs :
             (/\ Done(p, "Read") /\ gh[p].und
              /\ IsDir(fs, Dir(p))
              /\ arg[p].r \notin DOMAIN latest[Dir(p)])
             => res[p].st = "notfound")

\* C19: no two callers are inside the locked sections of Write or Delete at
\* the same time when their collection names resolve to the same directory
\* under the root.
C19_ExclusionPerDirectory ==
    \A p, q \in Procs :
        (p # q /\ InCS(p) /\ InCS(q))
        => Join(RootDir, arg[p].c) # Join(RootDir, arg[q].c)

\* C20: whenever no Write or Delete is inside its locked section, the
\* filesystem is the one that the successful Writes and Deletes made so far
\* produce when run one at a time in the order in which they held the
\* collection mutex;
\* a resource written twice holds the value of the Write that locked last,
\* and no temp file is left.
C20_Serializable ==
    (\A p \in Procs : ~InCS(p)) =>
        /\ Visible(fs) = serial
        /\ \A path \in DOMAIN Visible(fs) \ {RootDir} :
              \A r \in Resources : path[Len(path)] # r \o ".json.tmp"

\* Two Writes of different values to the same resource have both returned
\* success, nothing is running, and the resource holds the second value.
C20_Witness ==
    \E p, q \in Procs :
        /\ Done(p, "Write") /\ res[p].st = "ok" /\ arg[p].v = <<1>>
        /\ Done(q, "Write") /\ res[q].st = "ok" /\ arg[q].v = <<12>>
        /\ arg[p].c = arg[q].c /\ arg[p].r = arg[q].r
        /\ fs[FnlPath(arg[q].c, arg[q].r)].data = Marshal(12)
        /\ serial = Visible(fs)

====
